---- MODULE Spec2Model ----
(***************************************************************************)
(* Zone control ledger and distance allocation of the Territory Conquest   *)
(* backend (app/services/zone_control.py, app/services/activity_processor  *)
(* .py, app/models/activity.py), the allocation of an activity's distance  *)
(* to competitions (app/services/competition_service.py) and the conquest  *)
(* layer (app/api/risk.py, app/services/risk_service.py).  The database    *)
(* function register_tactical_move is not part of the Python sources; its  *)
(* definitions follow section 4.4 of the specification.  Further: deleting *)
(* an activity, joining and leaving a team (app/api/teams.py), city-zone   *)
(* initialisation (app/api/zones.py), polyline decoding (app/services/     *)
(* h3_service.py), joining a competition (app/api/competitions.py) and the *)
(* Strava sync and webhook (app/services/strava_service.py).               *)
(*                                                                         *)
(* The database tables are the state.  Distances are exact rationals kept  *)
(* as integers in units of 1/UnitsPerKm km; control_percentage is kept in  *)
(* hundredths of a percent, which is what round(x, 2) stores.  Time is in  *)
(* days.  The payloads and distances are such that every division by the   *)
(* number of cells is exact.                                               *)
(*                                                                         *)
(* Where a value is used several times it is bound once by a singleton     *)
(* set ("\E x \in {e} : ..." or "CHOOSE r \in {f(x) : x \in {e}} : TRUE"),  *)
(* so that it is evaluated once.                                           *)
(***************************************************************************)
EXTENDS Integers, Sequences, FiniteSets, TLC

\* ---------------------------------------------------------------- bounds
MaxActivities == 2
MaxNow == 31
MaxReplays == 1
MaxAllocateCalls == 2
MaxMoves == 2
\* activities created while users change team
MaxWindowActivities == 3
\* calls of POST /zones/initialize
MaxInitializations == 1
\* characters of a polyline
MaxPolylineLen == 7
\* characters of one encoded value
MaxValueChars == 5

\* ------------------------------------------------------------- constants
\* distance_km is a float; one integer unit is 1/60 km
UnitsPerKm == 60
\* settings.ZONE_CONTROL_THRESHOLD_KM = 5.0
ZONE_CONTROL_THRESHOLD_KM == 5
\* settings.ZONE_DEFENSE_MULTIPLIER = 1.2 = DefenseNum / DefenseDen
DefenseNum == 6
DefenseDen == 5
\* settings.GYM_ACTIVITY_MULTIPLIER = 0.8 = GymNum / GymDen
GymNum == 4
GymDen == 5
\* settings.ACTIVITY_POINTS_PER_KM = 10
ACTIVITY_POINTS_PER_KM == 10
\* settings.TEAM_ACTIVITY_BONUS = 1.1 = TeamBonusNum / TeamBonusDen
TeamBonusNum == 11
TeamBonusDen == 10
\* timedelta(days=30)
WINDOW_DAYS == 30
\* the clock advances by a bit more than a window
TickDays == WINDOW_DAYS + 1

\* ---------------------------------------------------------------- values
None == "None"
\* an optional list: a missing key, null, or a list
Absent == [tag |-> "absent", cells |-> <<>>]
Null == [tag |-> "null", cells |-> <<>>]
List(cells) == [tag |-> "list", cells |-> cells]
\* bool(v) of an optional list
Truthy(v) == v.tag = "list" /\ v.cells # <<>>
Users == {"u1", "u2", "u3"}
Teams == {"tA", "tB", "tC"}
Cells == {"c1", "c2"}
\* users.team_id of each user
\* total_km and total_points of a new users or teams row
NoTotals == [total_km |-> 0, total_points |-> 0]
UserTeam == [u \in Users |-> CASE u = "u1" -> "tA" [] u = "u2" -> "tB" [] OTHER -> None]
\* distance_km of the submitted activities, in km
Distances == {5, 6}

\* an Optional[float]: None or a number (whole degrees here)
Nothing == [some |-> FALSE, v |-> 0]
Some(v) == [some |-> TRUE, v |-> v]
\* bool(x) of an Optional[float]: None and 0.0 are falsy
TruthyNum(x) == x.some /\ x.v # 0

\* An ActivityCreate payload.  assigned_zones is Absent (key not in the
\* payload), Null or a list of cells; polyline is Null or the list of cells
\* the route decodes to; start_lat and start_lng are optional numbers.
Req(gym, az, poly, lat, lng) ==
    [is_gym_activity |-> gym, assigned_zones |-> az, polyline |-> poly,
     start_lat |-> lat, start_lng |-> lng]

Requests ==
    { Req(FALSE, Absent, List(<<"c1">>), Nothing, Nothing),
      Req(FALSE, Absent, List(<<"c1", "c2">>), Nothing, Nothing),
      Req(FALSE, Absent, Null, Some(1), Some(1)),
      Req(FALSE, Absent, Null, Some(0), Some(1)),
      Req(FALSE, Absent, Null, Nothing, Nothing),
      Req(FALSE, Null, List(<<"c1">>), Nothing, Nothing),
      Req(TRUE, List(<<"c1">>), Null, Nothing, Nothing),
      Req(TRUE, Absent, List(<<"c1">>), Nothing, Nothing),
      Req(TRUE, Null, List(<<"c1">>), Nothing, Nothing),
      Req(TRUE, List(<<>>), List(<<"c1">>), Nothing, Nothing),
      Req(FALSE, List(<<"c1">>), Null, Nothing, Nothing) }

\* table zones: sequence of rows, id = position
VARIABLE zones
\* table zone_activities: rows in insertion order
VARIABLE zone_activities
\* table zone_control_history: rows in insertion order
VARIABLE zone_control_history
\* table activities: rows in insertion order, id = position (the columns
\* some operation reads)
VARIABLE activities
\* datetime.utcnow(), in days
VARIABLE now
\* number of replayed allocations so far
VARIABLE replays
\* what the last call was given and what it returned
VARIABLE last
\* the requests in flight: for each worker, where it is in
\* process_activity_zones and its local variables
VARIABLE workers

\* table activity_allocations: rows in insertion order
VARIABLE activity_allocations
\* table competition_participants: rows in insertion order
VARIABLE competition_participants
\* what the last call of POST /competitions/allocate was given and returned
VARIABLE allocation_result

\* table territory_control: the control row of each territory
VARIABLE territory_control
\* table active_battles: the battle of each territory
VARIABLE active_battles
\* table tactical_moves: rows in insertion order
VARIABLE tactical_moves
\* table conquest_history: rows in insertion order
VARIABLE conquest_history
\* number of invocations of the database function register_tactical_move
VARIABLE rpc_calls
\* what the last call of POST /risk/move was given and returned
VARIABLE risk_result
\* what the last call of GET /risk/preview/battle was given and returned
VARIABLE preview_result

\* the tables of the conquest layer
riskTables == <<territory_control, active_battles, tactical_moves, conquest_history>>

\* users.team_id of each user
VARIABLE user_team
\* users.total_km and users.total_points of each user
VARIABLE users_total
\* teams.total_km and teams.total_points of each team
VARIABLE teams_total
\* the ids of the activities rows that were deleted
VARIABLE deleted

\* the users and teams tables and the deleted rows
rest == <<user_team, users_total, teams_total, deleted>>

\* the position of a running POST /zones/initialize
VARIABLE initializer
\* the polyline handed to h3_service.polyline_to_cells, and what the call gave
VARIABLE polyline_input
VARIABLE decode_result

decoding == <<polyline_input, decode_result>>

\* the tables of the competitions and of the conquest layer, and the rest
others == <<activity_allocations, competition_participants, allocation_result, riskTables, rpc_calls, risk_result, preview_result, rest, initializer, decoding>>

vars == <<zones, zone_activities, zone_control_history, activities, now, replays, last, workers, others>>

\* --------------------------------------------------------------- helpers
RECURSIVE SumKm(_)
SumKm(rows) ==
    IF rows = <<>> THEN 0 ELSE Head(rows).distance_km + SumKm(Tail(rows))

Min2(a, b) == IF a <= b THEN a ELSE b

\* round(n / d * 100, 2) in hundredths of a percent
RoundPct(n, d) == (2 * 10000 * n + d) \div (2 * d)

\* keys of a dict in insertion order: first occurrence of each key
RECURSIVE KeyOrder(_, _)
KeyOrder(keys, seen) ==
    IF keys = <<>> THEN <<>>
    ELSE IF Head(keys) \in seen THEN KeyOrder(Tail(keys), seen)
    ELSE <<Head(keys)>> \o KeyOrder(Tail(keys), seen \cup {Head(keys)})

\* max(d.items(), key=lambda x: x[1])[0]: the first key, in insertion order,
\* whose value is the greatest
MaxKey(order, val) ==
    LET best == CHOOSE i \in 1..Len(order) :
                    /\ \A j \in 1..Len(order) : val[order[j]] <= val[order[i]]
                    /\ \A j \in 1..(i - 1) : val[order[j]] < val[order[i]]
    IN order[best]

\* ----------------------------------------------------- zone_control.py
\* row inserted by _get_or_create_zone; the other columns take their defaults
NewZone(h3_index) ==
    [h3_index |-> h3_index, controlled_by_team |-> None, controlled_by_user |-> None,
     control_percentage |-> 0, total_km |-> 0, total_activities |-> 0,
     bonus_multiplier |-> 1]

ZoneIdsOf(zs, h3_index) == {i \in 1..Len(zs) : zs[i].h3_index = h3_index}

\* the tables the zone service reads and writes
Db(zs, za, hist) == [zones |-> zs, zone_activities |-> za, zone_control_history |-> hist]

\* _get_or_create_zone: the id of the first row with that index, inserting one
\* if there is none
GetOrCreateZone(db, h3_index) ==
    IF ZoneIdsOf(db.zones, h3_index) # {}
    THEN [db |-> db, id |-> CHOOSE i \in ZoneIdsOf(db.zones, h3_index) :
                                \A j \in ZoneIdsOf(db.zones, h3_index) : i <= j]
    ELSE [db |-> [db EXCEPT !.zones = Append(@, NewZone(h3_index))],
          id |-> Len(db.zones) + 1]

\* _create_zone_activity: insert the row, then increment the zone's totals
CreateZoneActivity(db, zone_id, activity_id, user_id, team_id, km, points, recorded_at) ==
    [db EXCEPT
        !.zone_activities = Append(@, [zone_id |-> zone_id, activity_id |-> activity_id,
                                       user_id |-> user_id, team_id |-> team_id,
                                       distance_km |-> km, points_earned |-> points,
                                       recorded_at |-> recorded_at]),
        !.zones[zone_id].total_km = @ + km,
        !.zones[zone_id].total_activities = @ + 1]

\* the rows of a zone, whenever recorded
WindowedAll(za, zone_id, t) ==
    SelectSeq(za, LAMBDA r : r.zone_id = zone_id)

\* the rows of a zone with recorded_at >= utcnow() - 30 days
Windowed(za, zone_id, t) ==
    SelectSeq(za, LAMBDA r : r.zone_id = zone_id /\ r.recorded_at >= t - WINDOW_DAYS)

TeamRows(rows) == SelectSeq(rows, LAMBDA r : r.team_id # None)
TeamKmOf(rows, tid) == SumKm(SelectSeq(rows, LAMBDA r : r.team_id = tid))
UserKmOf(rows, uid) == SumKm(SelectSeq(rows, LAMBDA r : r.user_id = uid))

TeamOrder(rows) == KeyOrder([i \in 1..Len(TeamRows(rows)) |-> TeamRows(rows)[i].team_id], {})
UserOrder(rows) == KeyOrder([i \in 1..Len(rows) |-> rows[i].user_id], {})

\* controlling_team = max(team_km.items(), key=lambda x: x[1])
ControllingTeam(rows) ==
    MaxKey(TeamOrder(rows), [t \in Teams |-> TeamKmOf(rows, t)])

\* controlling_km * DefenseDen: the defense bonus applies to an incumbent candidate
ControllingKmScaled(zone, rows) ==
    LET c == ControllingTeam(rows)
    IN IF zone.controlled_by_team = c
       THEN TeamKmOf(rows, c) * DefenseNum
       ELSE TeamKmOf(rows, c) * DefenseDen

\* sum(team_km.values()) * DefenseDen
TotalKmScaled(rows) == SumKm(TeamRows(rows)) * DefenseDen

\* the percentage without the cap at 100
ControlPercentageUncapped(zone, rows) ==
    RoundPct(ControllingKmScaled(zone, rows), TotalKmScaled(rows))

\* round(min(100, controlling_km / total_km * 100), 2)
ControlPercentage(zone, rows) ==
    Min2(10000, RoundPct(ControllingKmScaled(zone, rows), TotalKmScaled(rows)))

\* the commit test with a strict threshold comparison
CommitsStrict(zone, rows) ==
    /\ 2 * ControllingKmScaled(zone, rows) >= TotalKmScaled(rows)
    /\ ControllingKmScaled(zone, rows) > ZONE_CONTROL_THRESHOLD_KM * UnitsPerKm * DefenseDen

\* the commit test without the test of the share
CommitsAtAnyShare(zone, rows) ==
    ControllingKmScaled(zone, rows) >= ZONE_CONTROL_THRESHOLD_KM * UnitsPerKm * DefenseDen

\* control_percentage >= 50 and controlling_km >= ZONE_CONTROL_THRESHOLD_KM
Commits(zone, rows) ==
    /\ 2 * ControllingKmScaled(zone, rows) >= TotalKmScaled(rows)
    /\ ControllingKmScaled(zone, rows) >= ZONE_CONTROL_THRESHOLD_KM * UnitsPerKm * DefenseDen

\* the users with a windowed row under the winning team, in user_km order
TeamUsers(rows, team) ==
    SelectSeq(UserOrder(rows),
              LAMBDA u : \E i \in 1..Len(rows) : rows[i].user_id = u /\ rows[i].team_id = team)

TopUser(rows, team) ==
    MaxKey(TeamUsers(rows, team), [u \in Users |-> UserKmOf(rows, u)])

\* a log call that inserts nothing
LogControlChangeDropped(hist, zone_id, previous_team, new_team) == hist

\* _log_control_change
LogControlChange(hist, zone_id, previous_team, new_team) ==
    Append(hist, [zone_id |-> zone_id, previous_team |-> previous_team, new_team |-> new_team])

\* what _recalculate_zone_control derives from the zone row and the windowed
\* rows it has read: whether it commits, update_data and changed
Decision(zone, rows) ==
    IF rows = <<>> \/ TeamRows(rows) = <<>> \/ ~Commits(zone, rows)
    THEN [committed |-> FALSE, changed |-> FALSE,
          controlled_by_team |-> zone.controlled_by_team,
          control_percentage |-> zone.control_percentage,
          controlled_by_user |-> zone.controlled_by_user]
    ELSE [committed |-> TRUE,
          changed |-> zone.controlled_by_team # ControllingTeam(rows),
          controlled_by_team |-> ControllingTeam(rows),
          control_percentage |-> ControlPercentage(zone, rows),
          controlled_by_user |-> IF TeamUsers(rows, ControllingTeam(rows)) # <<>>
                                 THEN TopUser(rows, ControllingTeam(rows))
                                 ELSE zone.controlled_by_user]

\* supabase.table('zones').update(update_data): a row with update_data applied
ApplyUpdate(row, dec) ==
    [row EXCEPT !.controlled_by_team = dec.controlled_by_team,
                !.control_percentage = dec.control_percentage,
                !.controlled_by_user = dec.controlled_by_user]

\* _recalculate_zone_control run without interruption: the tables after it and
\* the value it returns
RecalculateZoneControl(db, zone_id, t) ==
    CHOOSE result \in
        { IF ~dec.committed
          THEN [db |-> db, changed |-> FALSE, committed |-> FALSE]
          ELSE [db |-> [db EXCEPT
                          !.zones[zone_id] = ApplyUpdate(@, dec),
                          !.zone_control_history =
                              IF dec.changed
                              THEN LogControlChange(@, zone_id,
                                                    db.zones[zone_id].controlled_by_team,
                                                    dec.controlled_by_team)
                              ELSE @],
                changed |-> dec.changed, committed |-> TRUE] :
            dec \in {Decision(db.zones[zone_id], Windowed(db.zone_activities, zone_id, t))} } : TRUE

\* km_per_zone = distance_km / len(h3_indexes), times 0.8 for a gym activity
KmPerZone(distance_units, n, is_gym) ==
    IF is_gym THEN (distance_units * GymNum) \div (n * GymDen) ELSE distance_units \div n

\* int(int(km_per_zone * 10 * bonus_multiplier) * 1.1 if team_id)
ZonePoints(km, bonus, team_id) ==
    LET p == (km * ACTIVITY_POINTS_PER_KM * bonus) \div UnitsPerKm
    IN IF team_id # None THEN (p * TeamBonusNum) \div TeamBonusDen ELSE p

\* one pass of the loop of process_activity_zones, for the cell h3_index:
\* the tables after it and the entry appended to affected_zones
ProcessCell(db, h3_index, activity_id, user_id, team_id, km, recorded_at, t) ==
    LET got == GetOrCreateZone(db, h3_index)
        zone == got.db.zones[got.id]
        points == ZonePoints(km, zone.bonus_multiplier, team_id)
        db2 == CreateZoneActivity(got.db, got.id, activity_id, user_id, team_id,
                                  km, points, recorded_at)
        rec == RecalculateZoneControl(db2, got.id, t)
    IN [db |-> rec.db,
        outcome |-> [zone_id |-> got.id, h3_index |-> h3_index,
                     distance_km |-> km, points_earned |-> points,
                     control_changed |-> rec.changed,
                     controlled_by_team |-> zone.controlled_by_team,
                     controlled_by_user |-> zone.controlled_by_user]]

\* the loop of process_activity_zones from cell i on, given the tables and
\* the affected_zones list so far
RECURSIVE ProcessCells(_, _, _, _, _, _, _, _, _, _)
ProcessCells(db, affected, h3_indexes, i, activity_id, user_id, team_id, km, recorded_at, t) ==
    IF i > Len(h3_indexes) THEN [db |-> db, affected |-> affected]
    ELSE CHOOSE result \in
            { ProcessCells(cell.db, Append(affected, cell.outcome), h3_indexes, i + 1,
                           activity_id, user_id, team_id, km, recorded_at, t) :
                cell \in {ProcessCell(db, h3_indexes[i], activity_id, user_id, team_id,
                                      km, recorded_at, t)} } : TRUE

ProcessActivityZones(db, activity_id, user_id, team_id, h3_indexes, distance_units, recorded_at, is_gym, t) ==
    ProcessCells(db, <<>>, h3_indexes, 1, activity_id, user_id, team_id,
                 KmPerZone(distance_units, Len(h3_indexes), is_gym), recorded_at, t)

\* ------------------------------------------------------ h3_service.py
\* the characters of the polylines, by their code points: '@', 'E', '_',
\* 'b', 'i'
PolylineChars == {64, 69, 95, 98, 105}
\* the strings of these characters in which no value takes more than
\* MaxValueChars characters (a coordinate delta takes at most six)
Polylines ==
    {p \in UNION {[1..n -> PolylineChars] : n \in 0..MaxPolylineLen} :
        \A i \in 1..(Len(p) - MaxValueChars) :
            \E j \in i..(i + MaxValueChars - 1) : p[j] - 63 < 32}

\* the inner loop that stops at the end of the input and returns what it has
RECURSIVE DecodeValueLenient(_, _, _, _)
DecodeValueLenient(polyline, index, result, shift) ==
    IF index >= Len(polyline) THEN [error |-> FALSE, result |-> result, index |-> index]
    ELSE LET b == polyline[index + 1] - 63
             r == result + (b % 32) * 2^shift
         IN IF b < 32 THEN [error |-> FALSE, result |-> r, index |-> index + 1]
            ELSE DecodeValueLenient(polyline, index + 1, r, shift + 5)

\* the inner "while True" loop of _decode_polyline from position index on
\* (0-based): polyline[index] raises IndexError beyond the end; the 5-bit
\* groups do not overlap, so |= adds
RECURSIVE DecodeValue(_, _, _, _)
DecodeValue(polyline, index, result, shift) ==
    IF index >= Len(polyline) THEN [error |-> TRUE, result |-> result, index |-> index]
    ELSE LET b == polyline[index + 1] - 63
             r == result + (b % 32) * 2^shift
         IN IF b < 32 THEN [error |-> FALSE, result |-> r, index |-> index + 1]
            ELSE DecodeValue(polyline, index + 1, r, shift + 5)

\* ~(result >> 1) if result & 1 else result >> 1
ZigZag(result) == IF result % 2 = 1 THEN -(result \div 2) - 1 ELSE result \div 2

\* what a call of _decode_polyline or polyline_to_cells gave
Decoded(status, points, index) == [status |-> status, points |-> points, index |-> index, cells |-> <<>>]
NoDecode == Decoded("none", <<>>, 0)

\* the outer loop of _decode_polyline; the points are kept in 1e-5 degrees
RECURSIVE DecodeLoop(_, _, _, _, _)
DecodeLoop(polyline, index, lat, lng, points) ==
    IF index >= Len(polyline) THEN Decoded("ok", points, index)
    ELSE LET a == DecodeValue(polyline, index, 0, 0)
         IN IF a.error THEN Decoded("IndexError", <<>>, a.index)
            ELSE LET b == DecodeValue(polyline, a.index, 0, 0)
                 IN IF b.error THEN Decoded("IndexError", <<>>, b.index)
                    ELSE DecodeLoop(polyline, b.index, lat + ZigZag(a.result),
                                    lng + ZigZag(b.result),
                                    Append(points, <<lat + ZigZag(a.result),
                                                     lng + ZigZag(b.result)>>))

DecodePolyline(polyline) == DecodeLoop(polyline, 0, 0, 0, <<>>)

\* lat / 1e5 and lng / 1e5 as far as lat_lng_to_cell tells them apart
Degrees(x) == x \div 100000

\* list(cells) of a set of cells: its elements, each once
RECURSIVE ListOf(_)
ListOf(S) == IF S = {} THEN <<>> ELSE LET c == CHOOSE x \in S : TRUE
                                      IN <<c>> \o ListOf(S \ {c})

\* ------------------------------------------------- models/activity.py
\* ActivityCreate.validate_gym_zones: a field validator of assigned_zones; it
\* runs on a value given in the payload, not on the default of a missing key
ValidateGymZones(req) ==
    IF req.assigned_zones = Absent THEN TRUE
    ELSE /\ ~(req.is_gym_activity /\ ~Truthy(req.assigned_zones))
         /\ ~(~req.is_gym_activity /\ Truthy(req.assigned_zones))

\* --------------------------------------------- activity_processor.py
\* the value create_activity receives for assigned_zones
AssignedZones(req) == IF req.assigned_zones = Absent THEN Null ELSE req.assigned_zones

\* h3_service.lat_lng_to_cell: the cell that contains the point; the northern
\* points used here lie in c1, the points on the equator in c2
LatLngToCell(lat, lng) == IF lat >= 1 THEN "c1" ELSE "c2"

\* polyline_to_cells: decode, map each point to its cell, collect in a set
PolylineToCells(polyline) ==
    LET dec == DecodePolyline(polyline)
    IN IF dec.status # "ok" THEN dec
       ELSE [dec EXCEPT !.cells =
                ListOf({LatLngToCell(Degrees(dec.points[i][1]), Degrees(dec.points[i][2])) :
                           i \in 1..Len(dec.points)})]

\* "Determinar zonas afectadas": if gym and assigned_zones / elif polyline /
\* elif start_lat and start_lng
H3Indexes(req) ==
    IF req.is_gym_activity /\ Truthy(AssignedZones(req))
    THEN AssignedZones(req).cells
    ELSE IF req.polyline # Null THEN req.polyline.cells
    ELSE IF TruthyNum(req.start_lat) /\ TruthyNum(req.start_lng)
         THEN <<LatLngToCell(req.start_lat.v, req.start_lng.v)>>
    ELSE <<>>

\* int(int(int(distance_km * 10) * 0.8 if gym) * 1.1 if team)
ActivityPoints(distance_units, is_gym, team_id) ==
    LET p0 == (distance_units * ACTIVITY_POINTS_PER_KM) \div UnitsPerKm
        p1 == IF is_gym THEN (p0 * GymNum) \div GymDen ELSE p0
    IN IF team_id # None THEN (p1 * TeamBonusNum) \div TeamBonusDen ELSE p1

NoRequest == Req(FALSE, Absent, Null, Nothing, Nothing)

\* what a call was given and what it returned
Result(op, status, req, affected, distance, zone_id, changed, at) ==
    [op |-> op, status |-> status, request |-> req, affected |-> affected,
     distance_km |-> distance, zone_id |-> zone_id, control_changed |-> changed, at |-> at]

\* ------------------------------------------- competition_service.py
Competitions == {"k1", "k2", "k3"}
\* competitions.status: k1 and k2 are active, k3 is upcoming
CompetitionStatus == [k \in Competitions |-> IF k = "k3" THEN "upcoming" ELSE "active"]

\* competitions.max_participants: 1 for k1, not set for k2, 2 for k3
NotSet == 0
MaxParticipants == [k \in Competitions |-> CASE k = "k1" -> 1 [] k = "k2" -> NotSet [] OTHER -> 2]

\* an ActivityAllocation of km kilometres, allocated_percentage not given
Allocation(k, km) == [competition_id |-> k, allocated_km |-> km * UnitsPerKm]

\* the allocations lists of the requests
AllocationLists ==
    { <<>>,
      <<Allocation("k1", 5)>>,
      <<Allocation("k1", 2), Allocation("k2", 3)>>,
      <<Allocation("k1", 3), Allocation("k2", 3)>>,
      <<Allocation("k3", 5)>>,
      <<Allocation("k1", 6)>> }

\* current_rank of a participant that was never ranked
Unranked == 0

\* total_allocated = sum(a.allocated_km for a in allocations)
RECURSIVE TotalAllocated(_)
TotalAllocated(allocations) ==
    IF allocations = <<>> THEN 0
    ELSE Head(allocations).allocated_km + TotalAllocated(Tail(allocations))

\* a validation that lets every list through
OverAllocatedNever(allocations, total_activity_km) == FALSE

\* if total_allocated > total_activity_km: raise ValueError
OverAllocated(allocations, total_activity_km) ==
    TotalAllocated(allocations) > total_activity_km

\* the user is a participant of the competition
IsParticipant(parts, k, user_id) ==
    \E i \in 1..Len(parts) : parts[i].competition_id = k /\ parts[i].participant_id = user_id

\* the loop over allocations: the two tables after it
RECURSIVE AllocateLoop(_, _, _, _, _, _)
AllocateLoop(rows, parts, allocations, activity_id, user_id, total_activity_km) ==
    IF allocations = <<>> THEN [rows |-> rows, parts |-> parts]
    ELSE LET a == Head(allocations)
         IN IF CompetitionStatus[a.competition_id] # "active"
            THEN AllocateLoop(rows, parts, Tail(allocations), activity_id, user_id,
                              total_activity_km)
            ELSE AllocateLoop(
                   Append(rows, [activity_id |-> activity_id,
                                 competition_id |-> a.competition_id,
                                 allocated_km |-> a.allocated_km,
                                 allocated_percentage |-> RoundPct(a.allocated_km, total_activity_km),
                                 points_earned |-> (a.allocated_km * 10) \div UnitsPerKm]),
                   IF IsParticipant(parts, a.competition_id, user_id) THEN parts
                   ELSE Append(parts, [competition_id |-> a.competition_id,
                                       participant_id |-> user_id,
                                       current_rank |-> Unranked]),
                   Tail(allocations), activity_id, user_id, total_activity_km)

\* the participant rows of a competition
ParticipantRowsOf(parts, k) == {i \in 1..Len(parts) : parts[i].competition_id = k}

\* the orders in which .order('total_points', desc=True) can return the rows:
\* nothing writes total_points of a participant, so every order of the rows
\* is one; an order gives each row its position
RankOrders(parts, k) ==
    {f \in [ParticipantRowsOf(parts, k) -> 1..Cardinality(ParticipantRowsOf(parts, k))] :
        \A i, j \in ParticipantRowsOf(parts, k) : i # j => f[i] # f[j]}

\* _recalculate_competition_rankings: current_rank = position of the row
RecalculateCompetitionRankings(parts, f) ==
    [i \in 1..Len(parts) |->
        IF i \in DOMAIN f THEN [parts[i] EXCEPT !.current_rank = f[i]] ELSE parts[i]]

\* what a call of POST /competitions/allocate was given and what it returned
AllocationResult(calls, status, user_id, activity_id, allocations, total_activity_km) ==
    [calls |-> calls, status |-> status, user_id |-> user_id, activity_id |-> activity_id,
     allocations |-> allocations, total_activity_km |-> total_activity_km]

NoAllocationResult == AllocationResult(0, "none", None, 0, <<>>, 0)

\* -------------------------------------------------- risk_service.py
\* geographic_entities: the territories of the map; t0 is an id of no row
Territories == {"t1", "t2", "t3"}
UnknownTerritory == "t0"

\* a row of territory_control; defense_bonus is kept in hundredths (25 is
\* 0.25); has_row is false for a territory without a row
Control(has_row, team, units, bonus) ==
    [has_row |-> has_row, controlled_by |-> team, units |-> units,
     defense_bonus |-> bonus, is_under_attack |-> FALSE]

\* the map after world setup: t1 held by tB, t2 by tA in a fortified
\* territory, t3 neutral
InitialControl ==
    [t \in Territories |->
        CASE t = "t1" -> Control(TRUE, "tB", 5, 0)
          [] t = "t2" -> Control(TRUE, "tA", 4, 25)
          [] OTHER -> Control(FALSE, None, 0, 0)]

\* a row of active_battles; strengths in hundredths of a unit
Battle(attacker, defender, attacker_strength, defender_strength) ==
    [open |-> TRUE, attacker |-> attacker, defender |-> defender,
     attacker_strength |-> attacker_strength, defender_strength |-> defender_strength,
     conquest_progress |-> RoundPct(attacker_strength, attacker_strength + defender_strength)]

NoBattle ==
    [open |-> FALSE, attacker |-> None, defender |-> None,
     attacker_strength |-> 0, defender_strength |-> 0, conquest_progress |-> 0]

\* the tables of the conquest layer
RiskDb(tc, ab, tm, ch) ==
    [territory_control |-> tc, active_battles |-> ab, tactical_moves |-> tm,
     conquest_history |-> ch]

\* current_defender_units * (1 + defense_bonus), in hundredths of a unit
DefenseStrength(control) == control.units * (100 + control.defense_bonus)

\* distance_km of the activities that back the moves, in km
MoveDistance == 5

\* a TacticalMoveRequest
Move(move_type, from, to, units, km) ==
    [move_type |-> move_type, from_territory_id |-> from, to_territory_id |-> to,
     units |-> units, km |-> km]

\* the bodies of the requests of POST /risk/move
MoveRequests ==
    { Move("attack", None, "t1", 12, 5),
      Move("attack", None, "t1", 6, 5),
      Move("attack", None, "t1", 0, 5),
      Move("attack", None, "t1", -1, 5),
      Move("attack", None, "t1", 12, 0),
      Move("attack", None, UnknownTerritory, 12, 5),
      Move("attack", None, "t3", 1, 5),
      Move("defend", None, "t1", 1, 5),
      Move("reinforce", "t2", "t1", 1, 5),
      Move("reinforce", None, "t1", 1, 5) }

\* the conquest threshold: conquest-progress above 66%
CONQUEST_THRESHOLD_PCT == 66

\* a conquest test with the threshold at one half
ConquersAtHalf(attacker_strength, defender_strength) ==
    100 * attacker_strength > 50 * (attacker_strength + defender_strength)

\* conquest-progress = attacker / (attacker + defender) * 100 crosses the
\* conquest threshold
Conquers(attacker_strength, defender_strength) ==
    100 * attacker_strength > CONQUEST_THRESHOLD_PCT * (attacker_strength + defender_strength)

\* the TacticalMove row of a move
MoveRow(user_id, activity_id, m, turned_tide) ==
    [user_id |-> user_id, activity_id |-> activity_id, move_type |-> m.move_type,
     from_territory_id |-> m.from_territory_id, to_territory_id |-> m.to_territory_id,
     units_moved |-> m.units, km_allocated |-> m.km, turned_tide |-> turned_tide]

\* what register_tactical_move returns: the tables and its status
Registered(rdb, status) == [rdb |-> rdb, status |-> status]

\* an attack: the units join the attacker's strength against the territory;
\* a territory held by another entity becomes contested and a Battle is
\* opened if none exists (the contest threshold is not given a value: every
\* attack contests); when conquest-progress crosses the threshold the
\* territory flips to the attacker, the Battle is closed and a
\* ConquestHistoryEntry is appended
RegisterAttack(rdb, entity, row, m) ==
    LET to == m.to_territory_id
        control == rdb.territory_control[to]
        battle == rdb.active_battles[to]
        attack == (IF battle.open THEN battle.attacker_strength ELSE 0) + 100 * m.units
        defense == DefenseStrength(control)
    IN IF control.controlled_by = entity THEN Registered(rdb, "ValidationError")
       ELSE IF Conquers(attack, defense)
       THEN Registered(
              RiskDb([rdb.territory_control EXCEPT
                         ![to] = [has_row |-> TRUE, controlled_by |-> entity,
                                  units |-> attack \div 100,
                                  defense_bonus |-> control.defense_bonus,
                                  is_under_attack |-> FALSE]],
                     [rdb.active_battles EXCEPT ![to] = NoBattle],
                     Append(rdb.tactical_moves, [row EXCEPT !.turned_tide = TRUE]),
                     Append(rdb.conquest_history,
                            [territory_id |-> to, previous_controller |-> control.controlled_by,
                             new_controller |-> entity])),
              "ok")
       ELSE Registered(
              RiskDb([rdb.territory_control EXCEPT ![to].is_under_attack = TRUE],
                     [rdb.active_battles EXCEPT
                         ![to] = Battle(entity, control.controlled_by, attack, defense)],
                     Append(rdb.tactical_moves, row),
                     rdb.conquest_history),
              "ok")

\* a defend: the units join the defending side of a territory the mover
\* controls; conquest-progress of an open Battle goes down accordingly
RegisterDefend(rdb, entity, row, m) ==
    LET to == m.to_territory_id
        control == [rdb.territory_control[to] EXCEPT !.units = @ + m.units]
        battle == rdb.active_battles[to]
    IN IF rdb.territory_control[to].controlled_by # entity
       THEN Registered(rdb, "ValidationError")
       ELSE Registered(
              RiskDb([rdb.territory_control EXCEPT ![to] = control],
                     IF battle.open
                     THEN [rdb.active_battles EXCEPT
                              ![to] = Battle(battle.attacker, battle.defender,
                                             battle.attacker_strength, DefenseStrength(control))]
                     ELSE rdb.active_battles,
                     Append(rdb.tactical_moves, row),
                     rdb.conquest_history),
              "ok")

\* a reinforce: the units go from one territory of the mover's team to
\* another; no Battle is touched
RegisterReinforce(rdb, entity, row, m) ==
    LET from == m.from_territory_id
        to == m.to_territory_id
    IN IF \/ from \notin Territories \/ from = to
          \/ rdb.territory_control[from].controlled_by # entity
          \/ rdb.territory_control[to].controlled_by # entity
          \/ rdb.territory_control[from].units < m.units
       THEN Registered(rdb, "ValidationError")
       ELSE Registered(
              RiskDb([rdb.territory_control EXCEPT ![from].units = @ - m.units,
                                                  ![to].units = @ + m.units],
                     rdb.active_battles,
                     Append(rdb.tactical_moves, row),
                     rdb.conquest_history),
              "ok")

\* the database function register_tactical_move
RegisterTacticalMove(rdb, user_id, activity_id, m) ==
    IF m.units <= 0 \/ m.km <= 0 THEN Registered(rdb, "ValidationError")
    ELSE IF m.to_territory_id \notin Territories THEN Registered(rdb, "NotFoundError")
    ELSE IF m.move_type = "attack"
         THEN RegisterAttack(rdb, UserTeam[user_id], MoveRow(user_id, activity_id, m, FALSE), m)
    ELSE IF m.move_type = "defend"
         THEN RegisterDefend(rdb, UserTeam[user_id], MoveRow(user_id, activity_id, m, FALSE), m)
    ELSE RegisterReinforce(rdb, UserTeam[user_id], MoveRow(user_id, activity_id, m, FALSE), m)

\* a lookup of the activity by id alone
ActivityFoundAnyOwner(acts, user_id, activity_id) == activity_id \in 1..Len(acts)

\* .eq('id', activity_id).eq('user_id', current_user['id']) returns a row
ActivityFound(acts, user_id, activity_id) ==
    activity_id \in 1..Len(acts) /\ acts[activity_id].user_id = user_id

\* what a call of POST /risk/move was given and what it returned; invoked
\* tells whether register_tactical_move was called
RiskResult(calls, status, invoked, user_id, activity_id, m) ==
    [calls |-> calls, status |-> status, invoked |-> invoked, user_id |-> user_id,
     activity_id |-> activity_id, move |-> m]

NoRiskResult == RiskResult(0, "none", FALSE, None, 0, Move("none", None, None, 0, 0))

\* get_territory_detail: None for an unknown territory, else the rows read
GetTerritoryDetail(tc, ab, territory_id) ==
    IF territory_id \notin Territories
    THEN [found |-> FALSE, control |-> Control(FALSE, None, 0, 0), battle |-> NoBattle]
    ELSE [found |-> TRUE, control |-> tc[territory_id], battle |-> ab[territory_id]]

\* round(min(100, attack_strength / defense_strength * 100), 2) if
\* defense_strength > 0 else 100, in hundredths of a percent
SuccessProbability(units, defense_strength) ==
    IF defense_strength > 0
    THEN Min2(10000, RoundPct(100 * units, defense_strength))
    ELSE 10000

\* 'GO!' if success_probability > 60 else 'RISKY' if success_probability > 40
\* else 'AVOID', on the probability before it is rounded
Recommendation(units, defense_strength) ==
    IF defense_strength = 0 THEN "GO!"
    ELSE IF 100 * 100 * units > 60 * defense_strength THEN "GO!"
    ELSE IF 100 * 100 * units > 40 * defense_strength THEN "RISKY"
    ELSE "AVOID"

\* the units of the preview requests
PreviewUnits == {0, 1, 2, 3, 1000}

\* what a call of GET /risk/preview/battle was given and what it returned
PreviewResult(status, territory_id, units, control) ==
    [status |-> status, territory_id |-> territory_id, attack_units |-> units,
     current_units |-> control.units, defense_bonus |-> control.defense_bonus,
     success_probability |-> IF status = "200"
                             THEN SuccessProbability(units, DefenseStrength(control)) ELSE 0,
     recommendation |-> IF status = "200"
                        THEN Recommendation(units, DefenseStrength(control)) ELSE None]

NoPreviewResult == PreviewResult("none", None, 0, Control(FALSE, None, 0, 0))

\* two requests can be in flight
\* the cells h3_service.get_area_cells returns for the initialised area
AreaCells == <<"c1", "c2">>
\* no POST /zones/initialize is running
IdleInitializer == [pc |-> "idle", i |-> 0, created |-> 0, existing |-> 0, runs |-> 0]

Workers == {"w1", "w2"}

\* a worker with no request
IdleWorker ==
    [pc |-> "idle", activity_id |-> 0, user_id |-> None, team_id |-> None,
     h3_indexes |-> <<>>, km |-> 0, distance_km |-> 0, recorded_at |-> 0, i |-> 0,
     zone_id |-> 0, zone |-> NewZone(None), points |-> 0, rzone |-> NewZone(None),
     dec |-> Decision(NewZone(None), <<>>), affected |-> <<>>]

\* the tables and the processes after construction
InitTables ==
    /\ zones = <<>>
    /\ zone_activities = <<>>
    /\ zone_control_history = <<>>
    /\ activities = <<>>
    /\ now = 0
    /\ replays = 0
    /\ last = Result("init", "none", NoRequest, <<>>, 0, 0, FALSE, 0)
    /\ workers = [w \in Workers |-> IdleWorker]
    /\ activity_allocations = <<>>
    /\ competition_participants = <<>>
    /\ allocation_result = NoAllocationResult
    /\ territory_control = InitialControl
    /\ active_battles = [t \in Territories |-> NoBattle]
    /\ tactical_moves = <<>>
    /\ conquest_history = <<>>
    /\ rpc_calls = 0
    /\ risk_result = NoRiskResult
    /\ preview_result = NoPreviewResult
    /\ user_team = UserTeam
    /\ users_total = [u \in Users |-> NoTotals]
    /\ teams_total = [t \in Teams |-> NoTotals]
    /\ deleted = {}
    /\ initializer = IdleInitializer

Init ==
    /\ InitTables
    /\ polyline_input = <<>>
    /\ decode_result = NoDecode

\* POST /activities with a payload the model rejects: 422, nothing is called
CreateActivityRejected(req) ==
    /\ ~ValidateGymZones(req)
    /\ last' = Result("create", "rejected", req, <<>>, 0, 0, FALSE, now)
    /\ UNCHANGED <<zones, zone_activities, zone_control_history, activities, now, replays, workers, others>>

\* ActivityProcessor.create_activity called with a payload the model accepts
CreateActivityCall(user_id, req, d, external_id) ==
    /\ ValidateGymZones(req)
    /\ LET team_id == user_team[user_id]
           h3_indexes == H3Indexes(req)
           distance == d * UnitsPerKm
           activity == [user_id |-> user_id, team_id |-> team_id, distance_km |-> distance,
                        is_gym_activity |-> req.is_gym_activity,
                        points_earned |-> ActivityPoints(distance, req.is_gym_activity, team_id),
                        external_id |-> external_id,
                        recorded_at |-> now]
           id == Len(activities) + 1
           called == IF h3_indexes # <<>>
                     THEN ProcessActivityZones(Db(zones, zone_activities, zone_control_history),
                                               id, user_id, team_id, h3_indexes, distance,
                                               now, req.is_gym_activity, now)
                     ELSE [db |-> Db(zones, zone_activities, zone_control_history),
                           affected |-> <<>>]
       IN \E res \in {called} :
          /\ activities' = Append(activities, activity)
          /\ zones' = res.db.zones
          /\ zone_activities' = res.db.zone_activities
          /\ zone_control_history' = res.db.zone_control_history
          /\ last' = Result("create", "ok", req, res.affected, distance, 0, FALSE, now)
    /\ UNCHANGED <<now, replays, workers, others>>

\* POST /activities -> ActivityProcessor.create_activity
CreateActivity(user_id, req, d) ==
    /\ Len(activities) < MaxActivities
    /\ CreateActivityCall(user_id, req, d, None)

\* POST /activities while users change team
CreateWindowActivity(user_id, req, d) ==
    /\ Len(activities) < MaxWindowActivities
    /\ CreateActivityCall(user_id, req, d, None)

\* ZoneControlService._recalculate_zone_control called on its own
Recalculate(zone_id) ==
    /\ zone_id \in 1..Len(zones)
    /\ \E rec \in {RecalculateZoneControl(Db(zones, zone_activities, zone_control_history),
                                           zone_id, now)} :
          /\ zones' = rec.db.zones
          /\ zone_control_history' = rec.db.zone_control_history
          /\ last' = Result("recalc", "ok", NoRequest, <<>>, 0, zone_id, rec.changed, now)
    /\ UNCHANGED <<zone_activities, activities, now, replays, workers, others>>

\* time passes
Tick ==
    /\ now + TickDays <= MaxNow
    /\ now' = now + TickDays
    /\ UNCHANGED <<zones, zone_activities, zone_control_history, activities, replays, last, workers, others>>

\* process_activity_zones run again with the arguments of the last call
\* (redelivery of the same activity with the same computed allocation)
ReplayActivityZones ==
    /\ replays < MaxReplays
    /\ last.op \in {"create", "replay"} /\ last.status = "ok" /\ last.affected # <<>>
    /\ LET id == Len(activities)
           activity == activities[id]
           h3_indexes == [k \in 1..Len(last.affected) |-> last.affected[k].h3_index]
       IN \E res \in {ProcessActivityZones(Db(zones, zone_activities, zone_control_history),
                                            id, activity.user_id, activity.team_id, h3_indexes,
                                            activity.distance_km, activity.recorded_at,
                                            activity.is_gym_activity, now)} :
             /\ zones' = res.db.zones
             /\ zone_activities' = res.db.zone_activities
             /\ zone_control_history' = res.db.zone_control_history
             /\ last' = Result("replay", "ok", last.request, res.affected,
                               activity.distance_km, 0, FALSE, now)
    /\ replays' = replays + 1
    /\ UNCHANGED <<activities, now, workers, others>>

Next ==
    \/ \E req \in Requests : CreateActivityRejected(req)
    \/ \E u \in Users, req \in Requests, d \in Distances : CreateActivity(u, req, d)
    \/ \E z \in 1..Len(zones) : Recalculate(z)
    \/ Tick

Spec == Init /\ [][Next]_vars


\* ------------------------------------------------------------------------
\* Requests in flight at once.  Nothing in the service takes a lock or opens a
\* transaction, so between two requests (two server processes, one database)
\* the unit of interleaving is the single database call.  The requests here
\* carry a route through c1.
ConcUsers == {"u1", "u2"}
ConcCells == <<"c1">>

SetWorker(w, rec) == workers' = [workers EXCEPT ![w] = rec]

\* the entry process_activity_zones appends to affected_zones
Outcome(wk, changed) ==
    [zone_id |-> wk.zone_id, h3_index |-> wk.h3_indexes[wk.i],
     distance_km |-> wk.km, points_earned |-> wk.points, control_changed |-> changed,
     controlled_by_team |-> wk.zone.controlled_by_team,
     controlled_by_user |-> wk.zone.controlled_by_user]

\* the end of one pass of the loop: on to the next cell, or return
EndOfCell(w, changed) ==
    LET wk == workers[w]
        affected == Append(wk.affected, Outcome(wk, changed))
    IN IF wk.i < Len(wk.h3_indexes)
       THEN /\ SetWorker(w, [wk EXCEPT !.affected = affected, !.i = @ + 1, !.pc = "get_zone"])
            /\ last' = last
       ELSE /\ SetWorker(w, IdleWorker)
            /\ last' = Result("create", "ok", NoRequest, affected, wk.distance_km, 0, FALSE, now)

\* create_activity up to the call of process_activity_zones: the activity row
\* is inserted
WStart(w, user_id, d) ==
    /\ workers[w].pc = "idle"
    /\ Len(activities) < MaxActivities
    /\ LET team_id == user_team[user_id]
           distance == d * UnitsPerKm
       IN /\ activities' = Append(activities,
                [user_id |-> user_id, team_id |-> team_id, distance_km |-> distance,
                 is_gym_activity |-> FALSE, external_id |-> None,
                 points_earned |-> ActivityPoints(distance, FALSE, team_id),
                 recorded_at |-> now])
          /\ SetWorker(w, [IdleWorker EXCEPT
                !.pc = "get_zone", !.activity_id = Len(activities) + 1,
                !.user_id = user_id, !.team_id = team_id, !.h3_indexes = ConcCells,
                !.km = KmPerZone(distance, Len(ConcCells), FALSE),
                !.distance_km = distance, !.recorded_at = now, !.i = 1])
    /\ UNCHANGED <<zones, zone_activities, zone_control_history, now, replays, last, others>>

\* _get_or_create_zone: select the zone by h3_index
WSelectZone(w) ==
    LET wk == workers[w]
        ids == ZoneIdsOf(zones, wk.h3_indexes[wk.i])
    IN /\ wk.pc = "get_zone"
       /\ IF ids # {}
          THEN LET id == CHOOSE a \in ids : \A b \in ids : a <= b
               IN SetWorker(w, [wk EXCEPT !.zone_id = id, !.zone = zones[id],
                                          !.points = ZonePoints(wk.km, zones[id].bonus_multiplier, wk.team_id),
                                          !.pc = "insert_activity"])
          ELSE SetWorker(w, [wk EXCEPT !.pc = "insert_zone"])
       /\ UNCHANGED <<zones, zone_activities, zone_control_history, activities, now, replays, last, others>>

\* _get_or_create_zone: insert the zone that was not found
WInsertZone(w) ==
    LET wk == workers[w]
        row == NewZone(wk.h3_indexes[wk.i])
    IN /\ wk.pc = "insert_zone"
       /\ zones' = Append(zones, row)
       /\ SetWorker(w, [wk EXCEPT !.zone_id = Len(zones) + 1, !.zone = row,
                                  !.points = ZonePoints(wk.km, row.bonus_multiplier, wk.team_id),
                                  !.pc = "insert_activity"])
       /\ UNCHANGED <<zone_activities, zone_control_history, activities, now, replays, last, others>>

\* _create_zone_activity: insert the zone_activities row
WInsertZoneActivity(w) ==
    LET wk == workers[w]
    IN /\ wk.pc = "insert_activity"
       /\ zone_activities' = Append(zone_activities,
              [zone_id |-> wk.zone_id, activity_id |-> wk.activity_id,
               user_id |-> wk.user_id, team_id |-> wk.team_id, distance_km |-> wk.km,
               points_earned |-> wk.points, recorded_at |-> wk.recorded_at])
       /\ SetWorker(w, [wk EXCEPT !.pc = "update_totals"])
       /\ UNCHANGED <<zones, zone_control_history, activities, now, replays, last, others>>

\* _create_zone_activity: total_km + km, total_activities + 1, in one statement
WUpdateTotals(w) ==
    LET wk == workers[w]
    IN /\ wk.pc = "update_totals"
       /\ zones' = [zones EXCEPT ![wk.zone_id].total_km = @ + wk.km,
                                 ![wk.zone_id].total_activities = @ + 1]
       /\ SetWorker(w, [wk EXCEPT !.pc = "read_zone"])
       /\ UNCHANGED <<zone_activities, zone_control_history, activities, now, replays, last, others>>

\* _recalculate_zone_control: select the zone row
WReadZone(w) ==
    LET wk == workers[w]
    IN /\ wk.pc = "read_zone"
       /\ SetWorker(w, [wk EXCEPT !.rzone = zones[wk.zone_id], !.pc = "read_rows"])
       /\ UNCHANGED <<zones, zone_activities, zone_control_history, activities, now, replays, last, others>>

\* _recalculate_zone_control: select the windowed rows and decide
WReadRows(w) ==
    LET wk == workers[w]
        dec == Decision(wk.rzone, Windowed(zone_activities, wk.zone_id, now))
    IN /\ wk.pc = "read_rows"
       /\ IF dec.committed
          THEN SetWorker(w, [wk EXCEPT !.dec = dec, !.pc = "update_zone"]) /\ last' = last
          ELSE EndOfCell(w, FALSE)
       /\ UNCHANGED <<zones, zone_activities, zone_control_history, activities, now, replays, others>>

\* _recalculate_zone_control: update the zone row with update_data
WUpdateZone(w) ==
    LET wk == workers[w]
    IN /\ wk.pc = "update_zone"
       /\ zones' = [zones EXCEPT ![wk.zone_id] = ApplyUpdate(@, wk.dec)]
       /\ IF wk.dec.changed
          THEN SetWorker(w, [wk EXCEPT !.pc = "log"]) /\ last' = last
          ELSE EndOfCell(w, FALSE)
       /\ UNCHANGED <<zone_activities, zone_control_history, activities, now, replays, others>>

\* _recalculate_zone_control: _log_control_change
WLogChange(w) ==
    LET wk == workers[w]
    IN /\ wk.pc = "log"
       /\ zone_control_history' =
              LogControlChange(zone_control_history, wk.zone_id,
                               wk.rzone.controlled_by_team, wk.dec.controlled_by_team)
       /\ EndOfCell(w, TRUE)
       /\ UNCHANGED <<zones, zone_activities, activities, now, replays, others>>

NextReplay == Next \/ ReplayActivityZones

SpecReplay == Init /\ [][NextReplay]_vars

NextConc ==
    \E w \in Workers :
        \/ \E u \in ConcUsers, d \in Distances : WStart(w, u, d)
        \/ WSelectZone(w)
        \/ WInsertZone(w)
        \/ WInsertZoneActivity(w)
        \/ WUpdateTotals(w)
        \/ WReadZone(w)
        \/ WReadRows(w)
        \/ WUpdateZone(w)
        \/ WLogChange(w)

SpecConc == Init /\ [][NextConc]_vars

\* ------------------------------------------------------------------------
\* POST /competitions/allocate -> CompetitionService.allocate_activity_km
AllocateActivityKm(user_id, activity_id, allocations) ==
    /\ allocation_result.calls < MaxAllocateCalls
    /\ LET calls == allocation_result.calls + 1
           found == /\ activity_id \in 1..Len(activities)
                    /\ activities[activity_id].user_id = user_id
           total == IF found THEN activities[activity_id].distance_km ELSE 0
       IN IF ~found
          THEN /\ allocation_result' =
                      AllocationResult(calls, "404", user_id, activity_id, allocations, 0)
               /\ UNCHANGED <<activity_allocations, competition_participants>>
          ELSE IF OverAllocated(allocations, total)
          THEN /\ allocation_result' =
                      AllocationResult(calls, "ValueError", user_id, activity_id, allocations, total)
               /\ UNCHANGED <<activity_allocations, competition_participants>>
          ELSE IF allocations = <<>>
          THEN \* the loop variable is read after a loop that never ran
               /\ allocation_result' =
                      AllocationResult(calls, "UnboundLocalError", user_id, activity_id,
                                       allocations, total)
               /\ UNCHANGED <<activity_allocations, competition_participants>>
          ELSE \E res \in {AllocateLoop(activity_allocations, competition_participants,
                                         allocations, activity_id, user_id, total)} :
               \E f \in RankOrders(res.parts, allocations[Len(allocations)].competition_id) :
                  /\ activity_allocations' = res.rows
                  /\ competition_participants' = RecalculateCompetitionRankings(res.parts, f)
                  /\ allocation_result' =
                         AllocationResult(calls, "201", user_id, activity_id, allocations, total)
    /\ UNCHANGED <<zones, zone_activities, zone_control_history, activities, now, replays, last, workers>>
    /\ UNCHANGED <<riskTables, rpc_calls, risk_result, preview_result, rest, initializer, decoding>>

\* activities that touch no cell, and allocations of their distance
NextComp ==
    \/ \E u \in ConcUsers, d \in Distances : CreateActivity(u, NoRequest, d)
    \/ \E u \in ConcUsers, id \in 1..MaxActivities, al \in AllocationLists :
          AllocateActivityKm(u, id, al)

SpecComp == Init /\ [][NextComp]_vars

\* ------------------------------------------------------------------------
\* POST /risk/move -> RiskConquestService.execute_tactical_move
ExecuteTacticalMove(user_id, activity_id, m) ==
    /\ risk_result.calls < MaxMoves
    /\ IF ~ActivityFound(activities, user_id, activity_id)
       THEN /\ risk_result' = RiskResult(risk_result.calls + 1, "404", FALSE,
                                         user_id, activity_id, m)
            /\ UNCHANGED <<riskTables, rpc_calls>>
       ELSE \E res \in {RegisterTacticalMove(
                            RiskDb(territory_control, active_battles, tactical_moves,
                                   conquest_history), user_id, activity_id, m)} :
               /\ territory_control' = res.rdb.territory_control
               /\ active_battles' = res.rdb.active_battles
               /\ tactical_moves' = res.rdb.tactical_moves
               /\ conquest_history' = res.rdb.conquest_history
               /\ rpc_calls' = rpc_calls + 1
               /\ risk_result' = RiskResult(risk_result.calls + 1, res.status, TRUE,
                                            user_id, activity_id, m)
    /\ UNCHANGED <<zones, zone_activities, zone_control_history, activities, now, replays, last, workers>>
    /\ UNCHANGED <<activity_allocations, competition_participants, allocation_result, preview_result, rest, initializer, decoding>>

\* a preview that logs itself as a move
PreviewAttackLogged(territory_id, units) ==
    /\ preview_result' = PreviewResult("200", territory_id, units,
                                       GetTerritoryDetail(territory_control, active_battles,
                                                          territory_id).control)
    /\ tactical_moves' = Append(tactical_moves,
                                MoveRow(None, 0, Move("attack", None, territory_id, units, 0), FALSE))
    /\ UNCHANGED <<zones, zone_activities, zone_control_history, activities, now, replays, last, workers>>
    /\ UNCHANGED <<activity_allocations, competition_participants, allocation_result, rest, initializer, decoding>>
    /\ UNCHANGED <<territory_control, active_battles, conquest_history, rpc_calls, risk_result>>

\* GET /risk/preview/battle/{territory_id}?units=
PreviewAttack(territory_id, units) ==
    /\ LET detail == GetTerritoryDetail(territory_control, active_battles, territory_id)
           status == IF units < 1 THEN "422" ELSE IF ~detail.found THEN "404" ELSE "200"
       IN preview_result' = PreviewResult(status, territory_id, units, detail.control)
    /\ UNCHANGED <<zones, zone_activities, zone_control_history, activities, now, replays, last, workers>>
    /\ UNCHANGED <<activity_allocations, competition_participants, allocation_result, rest, initializer, decoding>>
    /\ UNCHANGED <<riskTables, rpc_calls, risk_result>>

\* activities that touch no cell, tactical moves backed by them, and previews
NextRisk ==
    \/ \E u \in ConcUsers : CreateActivity(u, NoRequest, MoveDistance)
    \/ \E u \in ConcUsers, id \in 1..MaxActivities, m \in MoveRequests :
          ExecuteTacticalMove(u, id, m)
    \/ \E t \in Territories \cup {UnknownTerritory}, n \in PreviewUnits : PreviewAttack(t, n)

SpecRisk == Init /\ [][NextRisk]_vars

\* ------------------------------------------------------------------------
\* the row of activities with that id and that user_id, if there is one
OwnedActivity(acts, gone, user_id, activity_id) ==
    /\ activity_id \in 1..Len(acts) /\ activity_id \notin gone
    /\ acts[activity_id].user_id = user_id

\* total_km - distance_km, total_points - points_earned
Subtract(totals, activity) ==
    [total_km |-> totals.total_km - activity.distance_km,
     total_points |-> totals.total_points - activity.points_earned]

\* DELETE /activities/{id} -> ActivityProcessor.delete_activity; the delete
\* of the activities row cascades to its zone_activities rows
DeleteActivity(user_id, activity_id) ==
    /\ IF ~OwnedActivity(activities, deleted, user_id, activity_id)
       THEN /\ last' = Result("delete", "404", NoRequest, <<>>, 0, 0, FALSE, now)
            /\ UNCHANGED <<zone_activities, users_total, teams_total, deleted>>
       ELSE LET activity == activities[activity_id]
            IN /\ deleted' = deleted \cup {activity_id}
               /\ zone_activities' =
                      SelectSeq(zone_activities, LAMBDA r : r.activity_id # activity_id)
               /\ users_total' = [users_total EXCEPT ![user_id] = Subtract(@, activity)]
               /\ teams_total' =
                      IF activity.team_id # None
                      THEN [teams_total EXCEPT ![activity.team_id] = Subtract(@, activity)]
                      ELSE teams_total
               /\ last' = Result("delete", "ok", NoRequest, <<>>, activity.distance_km,
                                 0, FALSE, now)
    /\ UNCHANGED <<zones, zone_control_history, activities, now, replays, workers>>
    /\ UNCHANGED <<activity_allocations, competition_participants, allocation_result>>
    /\ UNCHANGED <<riskTables, rpc_calls, risk_result, preview_result, user_team, initializer, decoding>>

\* activities are created and deleted
NextDelete ==
    \/ \E u \in Users, req \in Requests, d \in Distances : CreateActivity(u, req, d)
    \/ \E u \in Users, id \in 1..MaxActivities : DeleteActivity(u, id)
    \/ Tick

SpecDelete == Init /\ [][NextDelete]_vars

\* ------------------------------------------------------------------------
\* POST /teams/{team_id}/join of another team, public and not full
JoinTeam(user_id, team_id) ==
    /\ user_team[user_id] # team_id
    /\ user_team' = [user_team EXCEPT ![user_id] = team_id]
    /\ UNCHANGED <<zones, zone_activities, zone_control_history, activities, now, replays, last, workers>>
    /\ UNCHANGED <<activity_allocations, competition_participants, allocation_result>>
    /\ UNCHANGED <<riskTables, rpc_calls, risk_result, preview_result>>
    /\ UNCHANGED <<users_total, teams_total, deleted, initializer, decoding>>

\* POST /teams/leave by a user who is in a team
LeaveTeam(user_id) ==
    /\ user_team[user_id] # None
    /\ user_team' = [user_team EXCEPT ![user_id] = None]
    /\ UNCHANGED <<zones, zone_activities, zone_control_history, activities, now, replays, last, workers>>
    /\ UNCHANGED <<activity_allocations, competition_participants, allocation_result>>
    /\ UNCHANGED <<riskTables, rpc_calls, risk_result, preview_result>>
    /\ UNCHANGED <<users_total, teams_total, deleted, initializer, decoding>>

\* the users who run and the one who changes team, and the payloads they
\* send: a route through one cell or a gym activity assigned to it, of 5 km
WindowUsers == {"u1", "u2"}
Mover == "u1"
WindowDistance == 5
WindowRequests ==
    {Req(FALSE, Absent, List(<<"c1">>), Nothing, Nothing),
     Req(TRUE, List(<<"c1">>), Null, Nothing, Nothing)}

\* activities in one cell while a user changes team
NextWindow ==
    \/ \E u \in WindowUsers, req \in WindowRequests : CreateWindowActivity(u, req, WindowDistance)
    \/ \E t \in Teams : JoinTeam(Mover, t)
    \/ LeaveTeam(Mover)
    \/ \E z \in 1..Len(zones) : Recalculate(z)
    \/ Tick

SpecWindow == Init /\ [][NextWindow]_vars

\* ------------------------------------------------------------------------
\* POST /zones/initialize, one step per supabase call: the request arrives
ZStart ==
    /\ initializer.pc = "idle" /\ initializer.runs < MaxInitializations
    /\ initializer' = [pc |-> "select", i |-> 1, created |-> 0, existing |-> 0,
                       runs |-> initializer.runs + 1]
    /\ UNCHANGED <<zones, zone_activities, zone_control_history, activities, now, replays, last, workers>>
    /\ UNCHANGED <<activity_allocations, competition_participants, allocation_result>>
    /\ UNCHANGED <<riskTables, rpc_calls, risk_result, preview_result, rest, decoding>>

\* the loop goes on to the next cell, or the handler returns
NextAreaCell(st) ==
    IF st.i < Len(AreaCells) THEN [st EXCEPT !.i = @ + 1, !.pc = "select"]
    ELSE [st EXCEPT !.pc = "idle"]

\* "Verificar si ya existe": select the zone of the cell
ZSelect ==
    /\ initializer.pc = "select"
    /\ initializer' = IF ZoneIdsOf(zones, AreaCells[initializer.i]) # {}
                      THEN NextAreaCell([initializer EXCEPT !.existing = @ + 1])
                      ELSE [initializer EXCEPT !.pc = "insert"]
    /\ UNCHANGED <<zones, zone_activities, zone_control_history, activities, now, replays, last, workers>>
    /\ UNCHANGED <<activity_allocations, competition_participants, allocation_result>>
    /\ UNCHANGED <<riskTables, rpc_calls, risk_result, preview_result, rest, decoding>>

\* "Crear zona": insert the zone that was not found
ZInsert ==
    /\ initializer.pc = "insert"
    /\ zones' = Append(zones, NewZone(AreaCells[initializer.i]))
    /\ initializer' = NextAreaCell([initializer EXCEPT !.created = @ + 1])
    /\ UNCHANGED <<zone_activities, zone_control_history, activities, now, replays, last, workers>>
    /\ UNCHANGED <<activity_allocations, competition_participants, allocation_result>>
    /\ UNCHANGED <<riskTables, rpc_calls, risk_result, preview_result, rest, decoding>>

\* activity submissions and a city-zone initialisation, interleaved
NextZones ==
    \/ NextConc
    \/ ZStart
    \/ ZSelect
    \/ ZInsert

SpecZones == Init /\ [][NextZones]_vars

\* ------------------------------------------------------------------------
\* a polyline reaches h3_service after construction
InitDecode ==
    /\ InitTables
    /\ polyline_input \in Polylines
    /\ decode_result = NoDecode

\* h3_service.polyline_to_cells(polyline)
DecodeRoute ==
    /\ decode_result.status = "none"
    /\ decode_result' = PolylineToCells(polyline_input)
    /\ UNCHANGED <<zones, zone_activities, zone_control_history, activities, now, replays, last, workers>>
    /\ UNCHANGED <<activity_allocations, competition_participants, allocation_result>>
    /\ UNCHANGED <<riskTables, rpc_calls, risk_result, preview_result, rest, initializer>>
    /\ UNCHANGED polyline_input

NextDecode == DecodeRoute

SpecDecode == InitDecode /\ [][NextDecode]_vars

\* ------------------------------------------------------------------------
\* POST /competitions/{competition_id}/join
JoinCompetition(user_id, k) ==
    /\ IF CompetitionStatus[k] \notin {"upcoming", "active"}
       THEN /\ last' = Result("join_competition", "400 not accepting", NoRequest, <<>>, 0, 0, FALSE, now)
            /\ UNCHANGED competition_participants
       ELSE IF IsParticipant(competition_participants, k, user_id)
       THEN /\ last' = Result("join_competition", "400 already", NoRequest, <<>>, 0, 0, FALSE, now)
            /\ UNCHANGED competition_participants
       ELSE IF /\ MaxParticipants[k] # NotSet
               /\ Cardinality(ParticipantRowsOf(competition_participants, k)) >= MaxParticipants[k]
       THEN /\ last' = Result("join_competition", "400 full", NoRequest, <<>>, 0, 0, FALSE, now)
            /\ UNCHANGED competition_participants
       ELSE /\ competition_participants' =
                   Append(competition_participants,
                          [competition_id |-> k, participant_id |-> user_id,
                           current_rank |-> Unranked])
            /\ last' = Result("join_competition", "ok", NoRequest, <<>>, 0, 0, FALSE, now)
    /\ UNCHANGED <<zones, zone_activities, zone_control_history, activities, now, replays, workers>>
    /\ UNCHANGED <<activity_allocations, allocation_result>>
    /\ UNCHANGED <<riskTables, rpc_calls, risk_result, preview_result, rest, initializer, decoding>>

\* the competitions joined and the allocations lists sent here
JoinCompetitions == {"k1", "k2"}
JoinAllocationLists == {<<Allocation("k1", 5)>>, <<Allocation("k1", 2), Allocation("k2", 3)>>}

\* users join competitions and allocate the distance of their activities
NextJoin ==
    \/ \E u \in ConcUsers : CreateActivity(u, NoRequest, WindowDistance)
    \/ \E u \in ConcUsers, id \in 1..MaxActivities, al \in JoinAllocationLists :
          AllocateActivityKm(u, id, al)
    \/ \E u \in ConcUsers, k \in JoinCompetitions : JoinCompetition(u, k)

SpecJoin == Init /\ [][NextJoin]_vars

\* ------------------------------------------------------------------------
\* the activity Strava holds for each athlete: its id; it is a 5 km run with
\* a summary polyline through c1
StravaId == [u \in ConcUsers |-> IF u = "u1" THEN "s1" ELSE "s2"]
StravaRoute == Req(FALSE, Absent, List(<<"c1">>), Some(1), Some(1))

\* the activities rows with source 'strava' and that external_id
ExistingStrava(acts, external_id) == {i \in 1..Len(acts) : acts[i].external_id = external_id}

\* StravaService.sync_activities for a feed that holds the user's activity
SyncActivities(user_id) ==
    /\ Len(activities) < MaxActivities
    /\ IF ExistingStrava(activities, StravaId[user_id]) # {}
       THEN /\ last' = Result("sync", "0 synced", NoRequest, <<>>, 0, 0, FALSE, now)
            /\ UNCHANGED <<zones, zone_activities, zone_control_history, activities, now, replays, workers, others>>
       ELSE CreateActivityCall(user_id, StravaRoute, WindowDistance, StravaId[user_id])

\* StravaService.handle_webhook for a 'create' event of the user's activity
HandleWebhook(user_id) ==
    /\ Len(activities) < MaxActivities
    /\ CreateActivityCall(user_id, StravaRoute, WindowDistance, StravaId[user_id])

\* Strava activities arrive by sync and by webhook, next to manual ones
NextStrava ==
    \/ \E u \in ConcUsers : SyncActivities(u)
    \/ \E u \in ConcUsers : HandleWebhook(u)
    \/ \E u \in ConcUsers, req \in WindowRequests : CreateActivity(u, req, WindowDistance)
    \/ Tick

SpecStrava == Init /\ [][NextStrava]_vars

\* ------------------------------------------------------------ properties
\* the zone rows before and after a step, and the history of one zone
TeamBefore(z) == IF z <= Len(zones) THEN zones[z].controlled_by_team ELSE None
HistoryOf(hist, z) == SelectSeq(hist, LAMBDA h : h.zone_id = z)
AffectedIds(r) == {r.affected[k].zone_id : k \in 1..Len(r.affected)}

\* this step is a call of create_activity that was accepted
CreateStep == activities' # activities
\* this step is a call of _recalculate_zone_control on zone z alone
RecalcStep(z) ==
    /\ last'.op = "recalc" /\ last'.zone_id = z
    /\ now' = now /\ activities' = activities /\ zone_activities' = zone_activities
\* zone z was recalculated by the previous call and nothing happened since
JustRecalculated(z) ==
    /\ last.at = now
    /\ \/ last.op = "recalc" /\ last.zone_id = z
       \/ last.op = "create" /\ last.status = "ok" /\ z \in AffectedIds(last)

\* C1: after any sequence of contributions, every zone's stored
\* control_percentage is between 0 and 100 inclusive.
C1_ControlPercentageInRange ==
    \A z \in 1..Len(zones) :
        zones[z].control_percentage >= 0 /\ zones[z].control_percentage <= 100 * 100

\* an incumbent whose boosted share of the window exceeds 100% was committed
C1_Witness ==
    \E z \in 1..Len(zones) :
        LET rows == Windowed(zone_activities, z, now)
        IN /\ last.op = "create" /\ z \in AffectedIds(last)
           /\ zones[z].controlled_by_team # None
           /\ TeamRows(rows) # <<>>
           /\ ControllingTeam(rows) = zones[z].controlled_by_team
           /\ ControllingKmScaled(zones[z], rows) > TotalKmScaled(rows)
           /\ zones[z].control_percentage = 100 * 100

\* the windowed rows of zone z all carry one team, and reach the threshold
SingleTeamWindow(za, z, t, team) ==
    LET rows == Windowed(za, z, t)
    IN /\ rows # <<>>
       /\ \A i \in 1..Len(rows) : rows[i].team_id = team
       /\ SumKm(rows) >= ZONE_CONTROL_THRESHOLD_KM * UnitsPerKm

\* C2: recording, on a neutral zone, a contribution after which the window
\* holds a single team's distance of at least ZONE_CONTROL_THRESHOLD_KM makes
\* that team the controller, returns control_changed = true and appends
\* exactly one ControlChangeRecord (neutral -> team).
C2_SingleTeamTakesNeutralZone ==
    [][CreateStep =>
        \A k \in 1..Len(last'.affected) : \A team \in Teams :
            LET o == last'.affected[k]
                z == o.zone_id
                before == HistoryOf(zone_control_history, z)
                after == HistoryOf(zone_control_history', z)
            IN (TeamBefore(z) = None /\ SingleTeamWindow(zone_activities', z, now, team))
               => /\ zones'[z].controlled_by_team = team
                  /\ o.control_changed
                  /\ Len(after) = Len(before) + 1
                  /\ after[Len(after)] =
                        [zone_id |-> z, previous_team |-> None, new_team |-> team]]_vars

\* a neutral zone was taken by the single team of its window
C2_Witness ==
    /\ last.op = "create" /\ last.status = "ok"
    /\ \E k \in 1..Len(last.affected) : \E team \in Teams :
          LET o == last.affected[k]
          IN /\ o.controlled_by_team = None
             /\ o.control_changed
             /\ SingleTeamWindow(zone_activities, o.zone_id, now, team)
             /\ zones[o.zone_id].controlled_by_team = team

\* C3: in a sequential run the controller of a zone changes exactly when one
\* ControlChangeRecord is appended for it and control_changed is returned
\* true; a recalculation with no new contribution returns false and appends
\* nothing.
C3_RecordIffControllerChanged ==
    [][/\ \A z \in 1..Len(zones') :
             LET before == HistoryOf(zone_control_history, z)
                 after == HistoryOf(zone_control_history', z)
                 moved == zones'[z].controlled_by_team # TeamBefore(z)
             IN /\ moved => Len(after) = Len(before) + 1
                /\ ~moved => after = before
                /\ RecalcStep(z) => (last'.control_changed <=> moved)
                /\ (RecalcStep(z) /\ JustRecalculated(z))
                       => (~last'.control_changed /\ after = before)
       /\ CreateStep =>
             \A k \in 1..Len(last'.affected) :
                 last'.affected[k].control_changed
                     <=> zones'[last'.affected[k].zone_id].controlled_by_team
                            # TeamBefore(last'.affected[k].zone_id)]_vars

\* a zone changed hands twice, and a repeated recalculation returned false
C3_Witness ==
    \E z \in 1..Len(zones) :
        /\ Len(HistoryOf(zone_control_history, z)) >= 2
        /\ last.op = "recalc" /\ last.zone_id = z /\ ~last.control_changed

\* C4 (as claimed): a second recalculation of a zone, with the same window and
\* no new contribution, leaves controlled_by_team, control_percentage and
\* controlled_by_user as the first one left them.
C4_RecalculationIdempotent ==
    [][\A z \in 1..Len(zones) :
          (RecalcStep(z) /\ JustRecalculated(z))
              => /\ zones'[z].controlled_by_team = zones[z].controlled_by_team
                 /\ zones'[z].control_percentage = zones[z].control_percentage
                 /\ zones'[z].controlled_by_user = zones[z].controlled_by_user]_vars

\* the windowed distance of team a is exceeded by team b's, by no more than
\* the defense multiplier
WithinDefense(rows, a, b) ==
    /\ TeamKmOf(rows, b) > TeamKmOf(rows, a)
    /\ TeamKmOf(rows, b) * DefenseDen <= TeamKmOf(rows, a) * DefenseNum

\* C5 (as claimed): when the controller's windowed distance is exceeded by a
\* challenger's by no more than ZONE_DEFENSE_MULTIPLIER, a recalculation keeps
\* the controller and appends no ControlChangeRecord.
C5_IncumbentRetainsWithinDefense ==
    [][\A z \in 1..Len(zones) : \A a \in Teams : \A b \in Teams \ {a} :
          (/\ CreateStep /\ z \in AffectedIds(last')
           /\ zones[z].controlled_by_team = a
           /\ WithinDefense(Windowed(zone_activities', z, now), a, b))
              => /\ zones'[z].controlled_by_team = a
                 /\ HistoryOf(zone_control_history', z) = HistoryOf(zone_control_history, z)]_vars

\* C6 (as claimed): a recalculation writes a controller only when
\* control_percentage >= 50 and the candidate's raw windowed distance, before
\* the defense multiplier, is >= ZONE_CONTROL_THRESHOLD_KM.
C6_CommitNeedsRawThreshold ==
    \A z \in 1..Len(zones) :
        LET rows == Windowed(zone_activities, z, now)
            rec == RecalculateZoneControl(Db(zones, zone_activities, zone_control_history), z, now)
        IN rec.committed
              => /\ rec.db.zones[z].control_percentage >= 50 * 100
                 /\ TeamKmOf(rows, ControllingTeam(rows))
                        >= ZONE_CONTROL_THRESHOLD_KM * UnitsPerKm

RECURSIVE SumAffected(_)
SumAffected(affected) ==
    IF affected = <<>> THEN 0 ELSE Head(affected).distance_km + SumAffected(Tail(affected))

\* C9 (as claimed): for every accepted activity with a non-empty cell set,
\* gym-flagged or not, the per-cell distances add up to the activity's
\* distance_km.
C9_AllocationSumsToDistance ==
    (last.op = "create" /\ last.status = "ok" /\ last.affected # <<>>)
        => SumAffected(last.affected) = last.distance_km

\* the gym flag and the assigned cells of a payload do not go together
Mismatched(req) ==
    \/ req.is_gym_activity /\ ~Truthy(req.assigned_zones)
    \/ ~req.is_gym_activity /\ Truthy(req.assigned_zones)

\* C10 (as claimed): a submission with is_gym_activity and no assigned cells
\* (absent, null or empty), or with assigned cells and not is_gym_activity, is
\* rejected.
C10_MismatchedGymZonesRejected ==
    (last.op = "create" /\ Mismatched(last.request)) => last.status = "rejected"

\* every request has returned
AllIdle == \A w \in Workers : workers[w].pc = "idle"

\* the log of a zone reads as one line of transitions from neutral to the
\* zone's controller, as every serial order of the calls leaves it
HistoryChained(z) ==
    LET h == HistoryOf(zone_control_history, z)
    IN /\ \A k \in 1..Len(h) :
             /\ h[k].previous_team = (IF k = 1 THEN None ELSE h[k - 1].new_team)
             /\ h[k].previous_team # h[k].new_team
       /\ zones[z].controlled_by_team = (IF h = <<>> THEN None ELSE h[Len(h)].new_team)

\* C7 (as claimed): once concurrent submissions on a zone have returned, the
\* zone is as some serial order of them leaves it: its ControlChangeRecords
\* are one record per transition, each starting from the controller the
\* previous one set, and ending at the zone's controller.
C7_OutcomeOfSomeSerialOrder ==
    AllIdle => \A z \in 1..Len(zones) : HistoryChained(z)

\* C8 (as claimed): running process_activity_zones a second time for the same
\* activity leaves the contribution records, the lifetime totals and the
\* controller of every zone as the first run left them.
C8_ReplayIdempotent ==
    [][(replays' = replays + 1)
          => /\ zone_activities' = zone_activities
             /\ \A z \in 1..Len(zones) :
                   /\ zones'[z].total_km = zones[z].total_km
                   /\ zones'[z].total_activities = zones[z].total_activities
                   /\ zones'[z].controlled_by_team = zones[z].controlled_by_team]_vars

\* the h3_index of each entry of affected_zones, in order
CellsOf(affected) == [k \in 1..Len(affected) |-> affected[k].h3_index]

\* the cell set by strict precedence: assigned cells of a gym activity, else
\* the route's cells, else the cell of the start coordinate when one is
\* supplied, else none
PrecedenceCells(req) ==
    IF req.is_gym_activity /\ Truthy(req.assigned_zones) THEN req.assigned_zones.cells
    ELSE IF req.polyline # Null THEN req.polyline.cells
    ELSE IF req.start_lat.some /\ req.start_lng.some
         THEN <<LatLngToCell(req.start_lat.v, req.start_lng.v)>>
    ELSE <<>>

\* C11 (as claimed): an accepted activity affects the cells given by strict
\* precedence: the assigned cells of a gym activity, otherwise the route's
\* cells, otherwise the one cell of the start coordinate whenever a start
\* coordinate is supplied (any valid latitude and longitude), otherwise none.
C11_CellsByPrecedence ==
    (last.op = "create" /\ last.status = "ok")
        => CellsOf(last.affected) = PrecedenceCells(last.request)

\* C12 (as claimed): process_activity_zones returns one outcome per input
\* cell, in input order, and each outcome reports the zone's controller as it
\* is stored after that cell's recalculation: controlled_by_team and
\* controlled_by_user of the outcome equal the stored values.
C12_OutcomeReportsResultingController ==
    (last.op = "create" /\ last.status = "ok")
        => /\ CellsOf(last.affected) = H3Indexes(last.request)
           /\ \A k \in 1..Len(last.affected) :
                 LET o == last.affected[k]
                 IN /\ zones[o.zone_id].h3_index = o.h3_index
                    /\ o.controlled_by_team = zones[o.zone_id].controlled_by_team
                    /\ o.controlled_by_user = zones[o.zone_id].controlled_by_user

\* this step is a call of allocate_activity_km (found activity) whose list sums
\* to more than the activity's distance
OverAllocatingStep ==
    /\ allocation_result'.calls = allocation_result.calls + 1
    /\ allocation_result'.status # "404"
    /\ TotalAllocated(allocation_result'.allocations) > allocation_result'.total_activity_km

\* C13: allocate_activity_km with a list whose summed allocated_km exceeds the
\* activity's total km fails with an error and writes nothing: no
\* activity_allocations row, no participant, no rank.
C13_OverAllocationRejectedWithoutWrites ==
    [][OverAllocatingStep
          => /\ allocation_result'.status = "ValueError"
             /\ activity_allocations' = activity_allocations
             /\ competition_participants' = competition_participants]_vars

\* an over-allocating list was refused while earlier allocations are stored
C13_Witness ==
    /\ allocation_result.status = "ValueError"
    /\ TotalAllocated(allocation_result.allocations) > allocation_result.total_activity_km
    /\ activity_allocations # <<>>
    /\ competition_participants # <<>>

\* the allocated_km stored for an activity, over all its rows
StoredAllocatedKm(activity_id) ==
    TotalAllocated(SelectSeq(activity_allocations, LAMBDA r : r.activity_id = activity_id))

\* C14 (as claimed): after any sequence of allocate calls, the allocated_km
\* stored for an activity never sum to more than its distance_km.
C14_StoredAllocationsWithinDistance ==
    \A id \in 1..Len(activities) : StoredAllocatedKm(id) <= activities[id].distance_km

\* this step is a call of POST /risk/move
MoveStep == risk_result'.calls = risk_result.calls + 1

\* the conquest tables and the zones are as they were
ConquestStateUnchanged ==
    /\ territory_control' = territory_control
    /\ active_battles' = active_battles
    /\ tactical_moves' = tactical_moves
    /\ conquest_history' = conquest_history
    /\ zones' = zones

\* the activity named by the move is one of the mover's
OwnActivity(r) ==
    r.activity_id \in 1..Len(activities) /\ activities[r.activity_id].user_id = r.user_id

\* C15: a tactical move whose activity does not exist or belongs to another
\* user is answered 404 and register_tactical_move is not invoked for it: no
\* TacticalMove is recorded and no territory, battle or conquest state changes.
C15_MoveWithForeignActivityNotFound ==
    [][(MoveStep /\ ~OwnActivity(risk_result'))
          => /\ risk_result'.status = "404"
             /\ ~risk_result'.invoked
             /\ rpc_calls' = rpc_calls
             /\ ConquestStateUnchanged]_vars

\* a move backed by another user's activity was answered 404 after moves
\* had been registered
C15_Witness ==
    /\ risk_result.status = "404"
    /\ risk_result.activity_id \in 1..Len(activities)
    /\ activities[risk_result.activity_id].user_id # risk_result.user_id
    /\ risk_result.move.units > 0 /\ risk_result.move.to_territory_id \in Territories
    /\ tactical_moves # <<>>

\* C16 (as claimed): a tactical move with units <= 0 or km <= 0 is rejected
\* before any state is touched: register_tactical_move is not invoked and no
\* TacticalMove is recorded.
C16_NonPositiveMoveNotInvoked ==
    [][(MoveStep /\ (risk_result'.move.units <= 0 \/ risk_result'.move.km <= 0))
          => /\ risk_result'.status # "ok"
             /\ ~risk_result'.invoked
             /\ rpc_calls' = rpc_calls
             /\ tactical_moves' = tactical_moves]_vars

\* this step is a call of GET /risk/preview/battle: no move and no activity
PreviewStep == risk_result' = risk_result /\ activities' = activities

\* C17: preview_attack is read-only: for any territory, known or not, and any
\* unit count, a preview leaves territory_control, active_battles,
\* tactical_moves, conquest_history and zones unchanged.
C17_PreviewReadOnly ==
    [][PreviewStep => (ConquestStateUnchanged /\ rpc_calls' = rpc_calls)]_vars

\* a contested territory was previewed after moves had been registered
C17_Witness ==
    /\ preview_result.status = "200"
    /\ active_battles[preview_result.territory_id].open
    /\ tactical_moves # <<>>

\* C18 (as claimed): success% = min(100, units / (defender units * (1 +
\* defense_bonus)) * 100); the recommendation is GO! exactly when success% >
\* 60, RISKY exactly when 40 <= success% <= 60, AVOID exactly when success% <
\* 40; a 1000-unit attack yields GO! and a 1-unit attack yields AVOID.
C18_RecommendationBands ==
    preview_result.status = "200" =>
        LET n == 100 * 100 * preview_result.attack_units
            d == preview_result.current_units * (100 + preview_result.defense_bonus)
            rec == preview_result.recommendation
        IN /\ d > 0 => /\ preview_result.success_probability
                             = Min2(10000, RoundPct(100 * preview_result.attack_units, d))
                       /\ rec = "GO!" <=> n > 60 * d
                       /\ rec = "RISKY" <=> (40 * d <= n /\ n <= 60 * d)
                       /\ rec = "AVOID" <=> n < 40 * d
           /\ preview_result.attack_units = 1000 => rec = "GO!"
           /\ preview_result.attack_units = 1 => rec = "AVOID"

\* this step is an attack that register_tactical_move accepted and that
\* takes conquest-progress above the conquest threshold
ConqueringStep ==
    /\ MoveStep /\ risk_result'.status = "ok" /\ risk_result'.move.move_type = "attack"
    /\ LET t == risk_result'.move.to_territory_id
           a == (IF active_battles[t].open THEN active_battles[t].attacker_strength ELSE 0)
                   + 100 * risk_result'.move.units
           d == territory_control[t].units * (100 + territory_control[t].defense_bonus)
       IN 100 * a > CONQUEST_THRESHOLD_PCT * (a + d)

\* C19: a ConquestHistoryEntry is appended exactly when a Battle resolves in
\* the attacker's favor: an attack that takes conquest-progress above 66%
\* flips the territory to the attacker, closes the Battle and appends exactly
\* one entry; no other move appends one.
C19_ConquestEntryIffBattleWon ==
    [][IF ConqueringStep
       THEN LET t == risk_result'.move.to_territory_id
                team == UserTeam[risk_result'.user_id]
            IN /\ conquest_history' =
                      Append(conquest_history,
                             [territory_id |-> t,
                              previous_controller |-> territory_control[t].controlled_by,
                              new_controller |-> team])
               /\ territory_control'[t].controlled_by = team
               /\ ~active_battles'[t].open
       ELSE conquest_history' = conquest_history]_vars

\* an attack opened a Battle without conquering, and a second attack on the
\* same territory won it
C19_Witness ==
    /\ Len(tactical_moves) = 2 /\ Len(conquest_history) = 1
    /\ tactical_moves[1].move_type = "attack" /\ ~tactical_moves[1].turned_tide
    /\ tactical_moves[2].move_type = "attack" /\ tactical_moves[2].turned_tide
    /\ tactical_moves[1].to_territory_id = tactical_moves[2].to_territory_id
    /\ conquest_history[1].previous_controller = "tB"
    /\ territory_control["t1"].controlled_by = "tA"

\* the rows recorded no more than 30 days before now
Recent(za) == SelectSeq(za, LAMBDA r : r.recorded_at + WINDOW_DAYS >= now)

\* C20: a contribution recorded more than 30 days before a recalculation has
\* no influence on the controller or control_percentage the recalculation
\* stores, and the contribution records stay stored.
C20_OldContributionsWithoutInfluence ==
    [][/\ \A z \in 1..Len(zones) :
             RecalcStep(z)
                => /\ zones'[z] =
                        RecalculateZoneControl(
                            Db(zones, Recent(zone_activities), zone_control_history),
                            z, now).db.zones[z]
                   /\ zone_activities' = zone_activities
       /\ Len(zone_activities') >= Len(zone_activities)
       /\ \A i \in 1..Len(zone_activities) : zone_activities'[i] = zone_activities[i]]_vars

\* a zone whose only older contribution, of another team and longer than the
\* recent ones, is still stored was recalculated and is held by the recent
\* team
C20_Witness ==
    /\ last.op = "recalc" /\ last.at = now
    /\ \E i, j \in 1..Len(zone_activities) :
          /\ zone_activities[i].zone_id = last.zone_id
          /\ zone_activities[j].zone_id = last.zone_id
          /\ zone_activities[i].recorded_at + WINDOW_DAYS < now
          /\ zone_activities[j].recorded_at = now
          /\ zone_activities[i].team_id = "tA" /\ zone_activities[j].team_id = "tB"
          /\ zone_activities[i].distance_km > zone_activities[j].distance_km
          /\ zones[last.zone_id].controlled_by_team = "tB"

\* the distance of the activities of a user that exist
RECURSIVE ExistingKm(_, _)
ExistingKm(user_id, n) ==
    IF n = 0 THEN 0
    ELSE ExistingKm(user_id, n - 1)
         + (IF n \notin deleted /\ activities[n].user_id = user_id
            THEN activities[n].distance_km ELSE 0)

\* C21 (as claimed): after any sequence of create_activity and
\* delete_activity calls, a user's total_km equals the sum of distance_km of
\* the user's existing activities, and is never negative.
C21_TotalKmIsSumOfActivities ==
    \A u \in Users :
        /\ users_total[u].total_km = ExistingKm(u, Len(activities))
        /\ users_total[u].total_km >= 0

\* the zones that hold a contribution of the activity
ZonesTouchedBy(activity_id) ==
    {zone_activities[i].zone_id : i \in {j \in 1..Len(zone_activities) :
                                           zone_activities[j].activity_id = activity_id}}

\* C27 (as claimed): delete_activity by the owner removes the activity and
\* its zone contributions and leaves every zone the activity touched with the
\* controller and control_percentage a recalculation derives from the
\* remaining windowed contributions; by a non-owner or for an unknown id it
\* returns false and changes nothing.
C27_DeleteRecalculatesTouchedZones ==
    [][/\ deleted' # deleted =>
             \A id \in deleted' \ deleted :
                /\ \A i \in 1..Len(zone_activities') : zone_activities'[i].activity_id # id
                /\ \A z \in ZonesTouchedBy(id) :
                      LET derived == RecalculateZoneControl(
                                         Db(zones, zone_activities', zone_control_history),
                                         z, now).db.zones[z]
                      IN /\ zones'[z].controlled_by_team = derived.controlled_by_team
                         /\ zones'[z].control_percentage = derived.control_percentage
       /\ (last'.op = "delete" /\ last'.status = "404")
             => /\ zones' = zones /\ zone_activities' = zone_activities
                /\ activities' = activities /\ deleted' = deleted
                /\ users_total' = users_total /\ teams_total' = teams_total]_vars

\* the zone row a call finds: the stored row, or the row it inserts first
ZoneFound(z, h3_index) == IF z <= Len(zones) THEN zones[z] ELSE NewZone(h3_index)

\* the share of the candidate is below 50
BelowHalf(zone, rows) ==
    rows # <<>> /\ TeamRows(rows) # <<>>
    /\ 2 * ControllingKmScaled(zone, rows) < TotalKmScaled(rows)

\* the distance of the candidate is below the threshold
BelowThreshold(zone, rows) ==
    rows # <<>> /\ TeamRows(rows) # <<>>
    /\ ControllingKmScaled(zone, rows) < ZONE_CONTROL_THRESHOLD_KM * UnitsPerKm * DefenseDen

\* one of the four cases in which a recalculation does not commit
NotCommitting(zone, rows) ==
    rows = <<>> \/ TeamRows(rows) = <<>> \/ BelowHalf(zone, rows) \/ BelowThreshold(zone, rows)

SameControl(zone, before) ==
    /\ zone.controlled_by_team = before.controlled_by_team
    /\ zone.controlled_by_user = before.controlled_by_user
    /\ zone.control_percentage = before.control_percentage

\* C22: when a recalculation does not commit (no windowed contribution, no
\* windowed team distance, control_percentage below 50, or the threshold not
\* met), the zone's controlled_by_team, controlled_by_user and
\* control_percentage are left unchanged, no ControlChangeRecord is appended
\* and control_changed is false; a neutral zone stays neutral.
C22_NoCommitLeavesZoneUnchanged ==
    [][/\ \A z \in 1..Len(zones) :
            (RecalcStep(z) /\ NotCommitting(zones[z], Windowed(zone_activities, z, now)))
            => /\ SameControl(zones'[z], zones[z])
               /\ zone_control_history' = zone_control_history
               /\ ~last'.control_changed
       /\ CreateStep =>
            \A k \in 1..Len(last'.affected) :
               LET o == last'.affected[k]
                   z == o.zone_id
                   before == ZoneFound(z, o.h3_index)
               IN NotCommitting(before, Windowed(zone_activities', z, now))
                  => /\ SameControl(zones'[z], before)
                     /\ zone_control_history' = zone_control_history
                     /\ ~o.control_changed]_vars

\* a contribution left the incumbent's boosted share below 50 and the zone
\* was not committed
C22_Witness ==
    /\ last.op = "create" /\ last.status = "ok" /\ last.at = now
    /\ \E k \in 1..Len(last.affected) :
          LET o == last.affected[k]
              rows == Windowed(zone_activities, o.zone_id, now)
          IN /\ o.controlled_by_team # None
             /\ zones[o.zone_id].controlled_by_team = o.controlled_by_team
             /\ BelowHalf(zones[o.zone_id], rows)
             /\ ~o.control_changed

\* the team ids in lexicographic order
TeamIdOrder == <<"tA", "tB", "tC">>
TeamIndex(t) == CHOOSE i \in 1..Len(TeamIdOrder) : TeamIdOrder[i] = t
\* the teams with the greatest windowed distance
TiedTeams(rows) ==
    {t \in Teams : /\ TeamKmOf(rows, t) > 0
                   /\ \A u \in Teams : TeamKmOf(rows, u) <= TeamKmOf(rows, t)}
SmallestTeamId(S) == CHOOSE t \in S : \A u \in S : TeamIndex(t) <= TeamIndex(u)

\* the candidate team t passes the commit test on the zone row and the rows
CandidateCommits(zone, rows, t) ==
    LET km == IF zone.controlled_by_team = t
              THEN TeamKmOf(rows, t) * DefenseNum ELSE TeamKmOf(rows, t) * DefenseDen
    IN /\ 2 * km >= TotalKmScaled(rows)
       /\ km >= ZONE_CONTROL_THRESHOLD_KM * UnitsPerKm * DefenseDen

\* C23 (as claimed): when two or more teams tie for the maximum windowed
\* distance in a zone, the candidate of the recalculation is the team with
\* the lexicographically smallest id, whatever the order of the
\* contributions; so when that team passes the commit test, the zone is
\* committed to it.
C23_TieGoesToSmallestTeamId ==
    [][CreateStep =>
        \A k \in 1..Len(last'.affected) :
           LET o == last'.affected[k]
               z == o.zone_id
               before == ZoneFound(z, o.h3_index)
               rows == Windowed(zone_activities', z, now)
               tied == TiedTeams(rows)
           IN (Len(last'.affected) = 1 /\ Cardinality(tied) >= 2
               /\ CandidateCommits(before, rows, SmallestTeamId(tied)))
              => zones'[z].controlled_by_team = SmallestTeamId(tied)]_vars

\* the share of team t of the windowed team distance, in hundredths of a
\* percent, with the defense multiplier if t was the controller, capped at 100
ShareOf(rows, t, incumbent) ==
    IF TeamRows(rows) = <<>> THEN 0
    ELSE Min2(10000, RoundPct(IF incumbent THEN TeamKmOf(rows, t) * DefenseNum
                                            ELSE TeamKmOf(rows, t) * DefenseDen,
                              TotalKmScaled(rows)))

\* C24 (as claimed): after a contribution to a zone was recorded, a
\* controlled zone's stored control_percentage equals the controlling team's
\* share (defense multiplier applied, capped at 100) of the zone's current
\* windowed team distance, never a value left over from an earlier window.
C24_StoredPercentageIsCurrentShare ==
    [][CreateStep =>
        \A k \in 1..Len(last'.affected) :
           LET o == last'.affected[k]
               z == o.zone_id
               before == ZoneFound(z, o.h3_index)
               team == zones'[z].controlled_by_team
           IN (Len(last'.affected) = 1 /\ team # None)
              => zones'[z].control_percentage =
                    ShareOf(Windowed(zone_activities', z, now), team,
                            before.controlled_by_team = team)]_vars

\* the windowed distance user u contributed as a member of the team
MemberKm(rows, u, team) ==
    SumKm(SelectSeq(rows, LAMBDA r : r.user_id = u /\ r.team_id = team))
\* the users with the greatest windowed distance contributed under the team
TopMembers(rows, team) ==
    {u \in Users : /\ MemberKm(rows, u, team) > 0
                   /\ \A v \in Users : MemberKm(rows, v, team) <= MemberKm(rows, u, team)}

\* C25 (as claimed): whenever a recalculation commits a controller,
\* controlled_by_user is the user with the greatest windowed distance
\* contributed as a member of the winning team; distance the user
\* contributed under another team or without a team does not count.
C25_TopUserWithinWinningTeam ==
    [][CreateStep =>
        \A k \in 1..Len(last'.affected) :
           LET o == last'.affected[k]
               z == o.zone_id
               rows == Windowed(zone_activities', z, now)
           IN (Len(last'.affected) = 1 /\ ~NotCommitting(ZoneFound(z, o.h3_index), rows))
              => zones'[z].controlled_by_user \in TopMembers(rows, zones'[z].controlled_by_team)]_vars

\* C26 (as claimed): there is at most one zone record per grid cell index,
\* for any sequence or interleaving of activity submissions and city-zone
\* initialisations touching the same cell.
C26_OneZonePerCell ==
    \A i \in 1..Len(zones) : \A j \in 1..Len(zones) :
        zones[i].h3_index = zones[j].h3_index => i = j

\* the characters that end a value: those without the continuation bit
Terminators(polyline) == {i \in 1..Len(polyline) : polyline[i] - 63 < 32}
\* the encoding holds whole (lat, lng) pairs and nothing else
WellFormed(polyline) ==
    /\ Cardinality(Terminators(polyline)) % 2 = 0
    /\ polyline # <<>> => Len(polyline) \in Terminators(polyline)

\* C28: route decoding never silently truncates: the empty string decodes to
\* the empty sequence, a well-formed encoding yields one point per encoded
\* pair and consumes the whole input, an input that ends in the middle of a
\* value or of a pair raises an error instead of giving a shorter list, and
\* the cells of polyline_to_cells contain no duplicates.
C28_DecodingNeverTruncates ==
    decode_result.status # "none" =>
        /\ polyline_input = <<>> => decode_result.status = "ok" /\ decode_result.points = <<>>
        /\ WellFormed(polyline_input)
              => /\ decode_result.status = "ok"
                 /\ 2 * Len(decode_result.points) = Cardinality(Terminators(polyline_input))
                 /\ decode_result.index = Len(polyline_input)
        /\ ~WellFormed(polyline_input) => decode_result.status = "IndexError"
        /\ \A i \in 1..Len(decode_result.cells) : \A j \in 1..Len(decode_result.cells) :
              decode_result.cells[i] = decode_result.cells[j] => i = j

\* an input that ends after a latitude, with whole pairs before it, was
\* refused
C28_Witness ==
    /\ decode_result.status = "IndexError"
    /\ Len(polyline_input) \in Terminators(polyline_input)
    /\ Cardinality(Terminators(polyline_input)) >= 3

\* C29 (as claimed): after any sequence of join_competition and
\* allocate_activity_km calls, the participants of a competition are never
\* more than its max_participants (when set), and a user is a participant of
\* a competition at most once.
C29_ParticipantsWithinMaximum ==
    \A k \in Competitions :
        /\ MaxParticipants[k] # NotSet
              => Cardinality(ParticipantRowsOf(competition_participants, k)) <= MaxParticipants[k]
        /\ \A i, j \in ParticipantRowsOf(competition_participants, k) :
              competition_participants[i].participant_id =
                  competition_participants[j].participant_id => i = j

\* C30 (as claimed): at most one activity exists per Strava external_id
\* after any sequence of sync_activities runs and webhook 'create' events
\* delivering the same Strava activity, and its distance is allocated to
\* zones once.
C30_OneActivityPerExternalId ==
    \A u \in ConcUsers :
        /\ Cardinality(ExistingStrava(activities, StravaId[u])) <= 1
        /\ Cardinality({i \in 1..Len(zone_activities) :
                          zone_activities[i].activity_id
                              \in ExistingStrava(activities, StravaId[u])})
              <= Len(H3Indexes(StravaRoute))

====
